---- MODULE Spec2Model ----
(***************************************************************************)
(* Brain Jelly: the upload -> process_audio -> extract_features ->         *)
(* compute_similarity_for_track pipeline of backend/app/tasks/tasks.py,    *)
(* run by Celery workers against the Track / AudioFeature /                *)
(* SimilarityScore tables.                                                 *)
(*                                                                         *)
(* Every Celery task is a sequence of steps of one worker; a step is one   *)
(* database statement or commit (the unit the database makes atomic) or    *)
(* one dispatch to the broker.  Workers interleave freely between steps.   *)
(* Nullable columns hold <<>> (None) or <<v>>.  Floats are integers.       *)
(***************************************************************************)
EXTENDS Integers, Sequences, FiniteSets, TLC

\* ------------------------------------------------------------ bounds ----
NumTracks == 2
NumWorkers == 2
\* Messages the pipeline did not dispatch itself: a redelivery by the broker,
\* or a compute_similarity_for_track sent from outside.
MaxExtraDeliveries == 1

TrackIds == 1..NumTracks
Workers == 1..NumWorkers

\* ------------------------------------------------------------ values ----
None == <<>>
Some(v) == <<v>>

\* The values Track.status is declared to take.
StatusEnum == {"uploaded", "loaded", "extracting", "features_ready", "error"}

Tasks == {"process_audio", "extract_features", "compute_similarity_for_track"}
Messages == [task : Tasks, track_id : TrackIds]
Msg(task, t) == [task |-> task, track_id |-> t]

\* What load_audio can do on one call: return (waveform, samplerate), or raise
\* one of the AudioLoaderError subclasses.  A decoded file is summarised by the
\* statistics basic_extraction takes from its waveform.  Durations are in
\* hundredths of a second.
DecodedFiles ==
    { [samplerate |-> 44100, duration |-> 200, rms |-> 1, spectral_centroid |-> 3, peak_amplitude |-> 2],
      [samplerate |-> 44100, duration |-> 200, rms |-> 2, spectral_centroid |-> 1, peak_amplitude |-> 2] }
LoaderErrors == {"AudioDecodeError: Unable to decode audio file"}

VARIABLES
    tracks,        \* table tracks: id -> row, or NoTrack
    features,      \* table audio_features: a set of rows
    edges,         \* table similarity_scores: a set of rows
    nextEdgeId,    \* the similarity_scores.id sequence
    queue,         \* broker: message -> number of copies waiting
    worker,        \* each Celery worker: the task it runs, where, its locals
    extra,         \* redeliveries and outside triggers so far
    load,          \* the load_audio call in progress, and who made it
    essentia,      \* the essentia_extraction call in progress
    similar,       \* the last answer of GET /tracks/<id>/similar
    upload         \* the upload directory and the last answer of POST /upload

vars == <<tracks, features, edges, nextEdgeId, queue, worker, extra, load,
          essentia, similar, upload>>

NoTrack == [status |-> "absent"]

\* upload_track's Track(...) row.
NewTrack ==
    [status |-> "processing", samplerate |-> None, duration |-> None,
     error_message |-> None, has_similarity |-> FALSE]

IdleWorker ==
    [pc |-> "idle", task |-> "none", track_id |-> 0, source_values |-> None,
     deleted |-> {}, all_features |-> {}, result |-> "none", computed |-> 0]

Terminal == {"returned", "raised"}

Enqueue(q, m) == [q EXCEPT ![m] = @ + 1]
Dequeue(q, m) == [q EXCEPT ![m] = @ - 1]

Step(w, pc) == [worker EXCEPT ![w].pc = pc]
\* A task that returned or raised keeps its name, its argument and its outcome;
\* its other locals are dead.
Ended(w, pc, res, n) ==
    [worker EXCEPT ![w] = [IdleWorker EXCEPT !.pc = pc,
                                              !.task = worker[w].task,
                                              !.track_id = worker[w].track_id,
                                              !.result = res,
                                              !.computed = n]]
Return(w, res) == Ended(w, "returned", res, 0)
Raise(w, exc) == Ended(w, "raised", exc, 0)

At(w, task, pc) == worker[w].task = task /\ worker[w].pc = pc

\* No load_audio call is being followed.
NoLoad ==
    [pc |-> "none", caller |-> "none", worker |-> 0,
     file |-> [exists |-> FALSE, ext |-> "", duration |-> 0],
     next |-> 0, attempts |-> <<>>, post_processed |-> 0, last_error |-> None,
     scratch |-> "none", pending |-> None, unlink_logged |-> FALSE,
     outcome |-> None]

\* No essentia_extraction call is being followed.
NoExtraction ==
    [pc |-> "none", available |-> FALSE, ext |-> "", core |-> "none",
     has |-> {}, failing |-> {}, signal |-> <<>>, features |-> <<>>,
     logged |-> {}]

\* No request for similar tracks has been answered.
NoResponse == [status |-> 0, track_id |-> 0, data |-> <<>>]

\* An empty upload directory, no request answered: the answer's status code,
\* whether the file of the request in progress is saved, the tracks whose
\* file is kept, and whether the file of a refused request is still there.
NoUpload == [response |-> 0, request_file |-> FALSE, stored |-> {}, leftover |-> FALSE]

Init ==
    /\ tracks = [t \in TrackIds |-> NoTrack]
    /\ features = {}
    /\ edges = {}
    /\ nextEdgeId = 1
    /\ queue = [m \in Messages |-> 0]
    /\ worker = [w \in Workers |-> IdleWorker]
    /\ extra = 0
    /\ load = NoLoad
    /\ essentia = NoExtraction
    /\ similar = NoResponse
    /\ upload = NoUpload

\* ------------------------------------------------------------ upload ----
\* upload_track, for a file that passed its load_audio validation: the Track
\* row is committed, then process_audio is dispatched.  Ids are handed out in
\* order (uuid4 ids are interchangeable).
upload_track(t) ==
    /\ tracks[t] = NoTrack
    /\ \A u \in TrackIds : u < t => tracks[u] # NoTrack
    /\ tracks' = [tracks EXCEPT ![t] = NewTrack]
    /\ queue' = Enqueue(queue, Msg("process_audio", t))
    /\ UNCHANGED <<features, edges, nextEdgeId, worker, extra>>

\* ------------------------------------------------------------ broker ----
FirstPc(task) ==
    CASE task = "process_audio" -> "proc_load"
      [] task = "extract_features" -> "ext_extract"
      [] task = "compute_similarity_for_track" -> "sim_check"

StartTask(w, m) ==
    [worker EXCEPT ![w] = [IdleWorker EXCEPT !.pc = FirstPc(m.task),
                                              !.task = m.task,
                                              !.track_id = m.track_id]]

\* Workers are interchangeable: a message goes to the first idle one.
FirstIdle(w) ==
    /\ worker[w].pc = "idle"
    /\ \A v \in Workers : v < w => worker[v].pc # "idle"

\* The broker hands a waiting message to a worker, which acknowledges it.
Deliver(w, m) ==
    /\ FirstIdle(w)
    /\ queue[m] > 0
    /\ queue' = Dequeue(queue, m)
    /\ worker' = StartTask(w, m)
    /\ UNCHANGED <<tracks, features, edges, nextEdgeId, extra>>

\* At-least-once delivery: the message is handed over but its acknowledgement
\* is lost, so it stays with the broker and will be delivered again.
Redeliver(w, m) ==
    /\ FirstIdle(w)
    /\ queue[m] > 0
    /\ extra < MaxExtraDeliveries
    /\ extra' = extra + 1
    /\ worker' = StartTask(w, m)
    /\ UNCHANGED <<tracks, features, edges, nextEdgeId, queue>>

\* compute_similarity_for_track is a named task: anything with access to the
\* broker may send it, for any track id.
TriggerSimilarity(t) ==
    /\ extra < MaxExtraDeliveries
    /\ extra' = extra + 1
    /\ queue' = Enqueue(queue, Msg("compute_similarity_for_track", t))
    /\ UNCHANGED <<tracks, features, edges, nextEdgeId, worker>>

\* The finally: blocks (session.remove / session.close): the worker is free.
Finish(w) ==
    /\ worker[w].pc \in Terminal
    /\ worker' = [worker EXCEPT ![w] = IdleWorker]
    /\ UNCHANGED <<tracks, features, edges, nextEdgeId, queue, extra>>

\* ----------------------------------------------------- process_audio ----
\* _update_track_record: a missing track is reported back and nothing is
\* written; otherwise the four columns are set and committed.
update_track_record(tr, t, status, samplerate, duration, error_message) ==
    IF tr[t] = NoTrack
    THEN tr
    ELSE [tr EXCEPT ![t].status = status,
                    ![t].samplerate = samplerate,
                    ![t].duration = duration,
                    ![t].error_message = error_message]

\* _handle_processing_error.
handle_processing_error(tr, t, exc) ==
    update_track_record(tr, t, "error", None, None, Some(exc))

\* process_audio after load_audio returned (samplerate, duration): the track
\* is committed as loaded.
process_audio_loaded(w, samplerate, duration) ==
    /\ At(w, "process_audio", "proc_load")
    /\ tracks' = update_track_record(tracks, worker[w].track_id, "loaded",
                                     Some(samplerate), Some(duration), None)
    /\ worker' = Step(w, "proc_dispatch")
    /\ UNCHANGED <<features, edges, nextEdgeId, queue, extra>>

\* process_audio that dispatches extract_features from its error branch too.
process_audio_failed_Dispatches(w, exc) ==
    /\ At(w, "process_audio", "proc_load")
    /\ tracks' = handle_processing_error(tracks, worker[w].track_id, exc)
    /\ queue' = Enqueue(queue, Msg("extract_features", worker[w].track_id))
    /\ worker' = Return(w, exc)
    /\ UNCHANGED <<features, edges, nextEdgeId, extra>>

\* process_audio after load_audio raised the AudioLoaderError exc: rollback,
\* _handle_processing_error, whose dict is returned.
process_audio_failed(w, exc) ==
    /\ At(w, "process_audio", "proc_load")
    /\ tracks' = handle_processing_error(tracks, worker[w].track_id, exc)
    /\ worker' = Return(w, exc)
    /\ UNCHANGED <<features, edges, nextEdgeId, queue, extra>>

\* process_audio, load_audio succeeded.
ProcLoaded(w) ==
    \E f \in DecodedFiles : process_audio_loaded(w, f.samplerate, f.duration)

\* process_audio, load_audio raised an AudioLoaderError.
ProcLoadFailed(w) ==
    \E exc \in LoaderErrors : process_audio_failed(w, exc)

\* process_audio: extract_features.delay(...), the second commit, return.
ProcDispatch(w) ==
    /\ At(w, "process_audio", "proc_dispatch")
    /\ queue' = Enqueue(queue, Msg("extract_features", worker[w].track_id))
    /\ worker' = Return(w, "ok")
    /\ UNCHANGED <<tracks, features, edges, nextEdgeId, extra>>

\* process_audio: .delay raised (broker unreachable): except Exception rolls
\* back, which undoes nothing already committed, and re-raises.
ProcDispatchFailed(w) ==
    /\ At(w, "process_audio", "proc_dispatch")
    /\ worker' = Raise(w, "BrokerError")
    /\ UNCHANGED <<tracks, features, edges, nextEdgeId, queue, extra>>

\* -------------------------------------------------- extract_features ----
MfccSize == 13

\* basic_extraction on a decoded file: the numpy statistics and the
\* placeholders, updated with every non-None value of essentia_extraction's
\* dictionary when ESSENTIA_AVAILABLE.
basic_extraction(f, essentia_available, essentia_features) ==
    LET placeholder_features ==
            [spectral_centroid |-> Some(f.spectral_centroid),
             rms |-> Some(f.rms),
             peak_amplitude |-> Some(f.peak_amplitude),
             mfcc |-> [i \in 1..MfccSize |-> 0],
             bpm |-> None, key |-> None, key_strength |-> None]
    IN  IF essentia_available /\ DOMAIN essentia_features # {}
        THEN [k \in DOMAIN placeholder_features
                     \cup {x \in DOMAIN essentia_features : essentia_features[x] # None} |->
                 IF k \in DOMAIN essentia_features /\ essentia_features[k] # None
                 THEN essentia_features[k]
                 ELSE placeholder_features[k]]
        ELSE placeholder_features

\* The pipeline runs with the capability flag off, as in a deployment
\* without the library.
EssentiaAvailable == {FALSE}
EssentiaResults == {<<>>}

\* AudioFeature(track_id=..., rms=..., ...): the seven columns given, the
\* four the constructor pops left None.
AudioFeature(t, feats) ==
    [track_id |-> t,
     rms |-> feats.rms,
     spectral_centroid |-> feats.spectral_centroid,
     peak_amplitude |-> feats.peak_amplitude,
     mfcc |-> feats.mfcc,
     bpm |-> feats.bpm, key |-> feats.key, key_strength |-> feats.key_strength,
     rms_envelope |-> None, spectral_flux |-> None, rolloff |-> None, flatness |-> None]

\* A track_id column without unique=True.
ViolatesUniqueTrack_Off(rows, row) == FALSE

\* audio_features.track_id is unique=True: an INSERT of a second row for the
\* track fails at commit.
ViolatesUniqueTrack(rows, row) == \E r \in rows : r.track_id = row.track_id

\* extract_features, basic_extraction returned: the row is added, the status
\* set, and both committed together; an IntegrityError rolls both back.
ExtCommit(w) ==
    /\ At(w, "extract_features", "ext_extract")
    /\ LET t == worker[w].track_id IN
       IF tracks[t] = NoTrack
       THEN /\ worker' = Return(w, "Track not found")
            /\ UNCHANGED <<tracks, features>>
       ELSE \E f \in DecodedFiles, av \in EssentiaAvailable, ess \in EssentiaResults :
              LET audio_feature == AudioFeature(t, basic_extraction(f, av, ess)) IN
              IF ViolatesUniqueTrack(features, audio_feature)
              THEN /\ worker' = Raise(w, "IntegrityError")
                   /\ UNCHANGED <<tracks, features>>
              ELSE /\ features' = features \cup {audio_feature}
                   /\ tracks' = [tracks EXCEPT ![t].status = "features_ready"]
                   /\ worker' = Step(w, "ext_dispatch")
    /\ UNCHANGED <<edges, nextEdgeId, queue, extra>>

\* extract_features, basic_extraction raised an AudioLoaderError.
ExtLoadFailed(w) ==
    /\ At(w, "extract_features", "ext_extract")
    /\ tracks[worker[w].track_id] # NoTrack
    /\ \E exc \in LoaderErrors :
         /\ tracks' = [tracks EXCEPT ![worker[w].track_id].status = "error",
                                     ![worker[w].track_id].error_message = Some(exc)]
         /\ worker' = Return(w, exc)
    /\ UNCHANGED <<features, edges, nextEdgeId, queue, extra>>

\* extract_features: compute_similarity_for_track.delay(track_id), return.
ExtDispatch(w) ==
    /\ At(w, "extract_features", "ext_dispatch")
    /\ queue' = Enqueue(queue, Msg("compute_similarity_for_track", worker[w].track_id))
    /\ worker' = Return(w, "ok")
    /\ UNCHANGED <<tracks, features, edges, nextEdgeId, extra>>

\* extract_features: .delay raised after the commit: rollback, re-raise.
ExtDispatchFailed(w) ==
    /\ At(w, "extract_features", "ext_dispatch")
    /\ worker' = Raise(w, "BrokerError")
    /\ UNCHANGED <<tracks, features, edges, nextEdgeId, queue, extra>>

\* -------------------------------------- compute_similarity_for_track ----
\* _extract_basic_feature_values.
extract_basic_feature_values(feature) ==
    IF feature.rms = None \/ feature.spectral_centroid = None
                          \/ feature.peak_amplitude = None
    THEN None
    ELSE Some([rms |-> feature.rms[1],
               spectral_centroid |-> feature.spectral_centroid[1],
               peak_amplitude |-> feature.peak_amplitude[1]])

\* Track.features (uselist=False): the track's row, or None.
TrackFeatures(rows, t) ==
    IF \E r \in rows : r.track_id = t
    THEN Some(CHOOSE r \in rows : r.track_id = t)
    ELSE None

\* SimCheck that sets has_similarity on the source before validating it.
SimCheck_FlagFirst(w) ==
    /\ At(w, "compute_similarity_for_track", "sim_check")
    /\ LET t == worker[w].track_id
           source_features == TrackFeatures(features, t)
       IN  /\ tracks' = IF tracks[t] = NoTrack THEN tracks
                        ELSE [tracks EXCEPT ![t].has_similarity = TRUE]
           /\ IF tracks[t] = NoTrack
              THEN worker' = Return(w, "missing source track")
              ELSE IF source_features = None
              THEN worker' = Return(w, "No features for source track")
              ELSE IF extract_basic_feature_values(source_features[1]) = None
              THEN worker' = Return(w, "Incomplete source features")
              ELSE worker' = [worker EXCEPT
                       ![w].pc = "sim_delete",
                       ![w].source_values = extract_basic_feature_values(source_features[1])]
    /\ UNCHANGED <<features, edges, nextEdgeId, queue, extra>>

\* The three early returns; no statement has written anything yet.
SimCheck(w) ==
    /\ At(w, "compute_similarity_for_track", "sim_check")
    /\ LET t == worker[w].track_id
           source_features == TrackFeatures(features, t)
       IN  IF tracks[t] = NoTrack
           THEN worker' = Return(w, "missing source track")
           ELSE IF source_features = None
           THEN worker' = Return(w, "No features for source track")
           ELSE IF extract_basic_feature_values(source_features[1]) = None
           THEN worker' = Return(w, "Incomplete source features")
           ELSE worker' = [worker EXCEPT
                    ![w].pc = "sim_delete",
                    ![w].source_values = extract_basic_feature_values(source_features[1])]
    /\ UNCHANGED <<tracks, features, edges, nextEdgeId, queue, extra>>

\* session.query(SimilarityScore).filter_by(source_track_id=...).delete():
\* the DELETE statement removes, in this transaction, the rows of the source
\* that are committed when it runs.
SimDelete(w) ==
    /\ At(w, "compute_similarity_for_track", "sim_delete")
    /\ worker' = [worker EXCEPT
           ![w].pc = "sim_scan",
           ![w].deleted = {e.id : e \in {x \in edges : x.source_track_id = worker[w].track_id}}]
    /\ UNCHANGED <<tracks, features, edges, nextEdgeId, queue, extra>>

\* SimScan that commits has_similarity before the scores are built.
SimScan_FlagsEarly(w) ==
    /\ At(w, "compute_similarity_for_track", "sim_scan")
    /\ worker' = [worker EXCEPT ![w].pc = "sim_commit", ![w].all_features = features]
    /\ tracks' = [tracks EXCEPT ![worker[w].track_id].has_similarity = TRUE]
    /\ UNCHANGED <<features, edges, nextEdgeId, queue, extra>>

\* all_features = session.query(AudioFeature).all(): the committed rows.
SimScan(w) ==
    /\ At(w, "compute_similarity_for_track", "sim_scan")
    /\ worker' = [worker EXCEPT ![w].pc = "sim_commit", ![w].all_features = features]
    /\ UNCHANGED <<tracks, features, edges, nextEdgeId, queue, extra>>

\* target_vectors without the loop's "if target.track_id == track_id: continue".
target_vectors_WithSource(all_features, track_id) ==
    { target \in all_features : extract_basic_feature_values(target) # None }

\* target_vectors that pairs a source only with the tracks uploaded before it.
target_vectors_OnlyEarlier(all_features, track_id) ==
    { target \in all_features :
        /\ target.track_id < track_id
        /\ extract_basic_feature_values(target) # None }

\* The first loop: every scanned row but the source's own with the three
\* scalars present.
target_vectors(all_features, track_id) ==
    { target \in all_features :
        /\ target.track_id # track_id
        /\ extract_basic_feature_values(target) # None }

\* dist of the second loop.
Sq(x) == x * x
dist(source_values, target) ==
    Sq(source_values.rms - target.rms[1])
    + Sq(source_values.spectral_centroid - target.spectral_centroid[1])
    + Sq(source_values.peak_amplitude - target.peak_amplitude[1])

\* NewScores that stores every pair in both directions.
NewScores_BothDirections(track_id, source_values, targets, first_id) ==
    { [id |-> first_id + Cardinality({u \in targets : u.track_id < target.track_id}),
       source_track_id |-> track_id,
       target_track_id |-> target.track_id,
       score |-> dist(source_values, target)] : target \in targets }
    \cup
    { [id |-> first_id + Cardinality(targets)
                       + Cardinality({u \in targets : u.track_id < target.track_id}),
       source_track_id |-> target.track_id,
       target_track_id |-> track_id,
       score |-> dist(source_values, target)] : target \in targets }

\* NewScores that adds a row only for a pair that has no stored row yet.
NewScores_OnlyMissing(track_id, source_values, targets, first_id) ==
    { [id |-> first_id + Cardinality({u \in targets : u.track_id < target.track_id}),
       source_track_id |-> track_id,
       target_track_id |-> target.track_id,
       score |-> dist(source_values, target)] :
      target \in {x \in targets :
                     ~ \E e \in edges : /\ e.source_track_id = track_id
                                         /\ e.target_track_id = x.track_id} }

\* The SimilarityScore rows of the second loop; ids come from the sequence
\* in the order of the targets' track ids.
NewScores(track_id, source_values, targets, first_id) ==
    { [id |-> first_id + Cardinality({u \in targets : u.track_id < target.track_id}),
       source_track_id |-> track_id,
       target_track_id |-> target.track_id,
       score |-> dist(source_values, target)] : target \in targets }

\* uq_similarity_source_target.
ViolatesUniquePair_Off(rows, new_rows) == FALSE

ViolatesUniquePair(rows, new_rows) ==
    \E r \in rows, n \in new_rows :
        r.source_track_id = n.source_track_id /\ r.target_track_id = n.target_track_id

\* SimCommit whose failure branch marks the source track as failed.
SimCommit_MarksError(w) ==
    /\ At(w, "compute_similarity_for_track", "sim_commit")
    /\ LET t == worker[w].track_id
           targets == target_vectors(worker[w].all_features, t)
           scores == NewScores(t, worker[w].source_values[1], targets, nextEdgeId)
           kept == {e \in edges : e.id \notin worker[w].deleted}
       IN  IF ViolatesUniquePair(kept, scores)
           THEN /\ worker' = Raise(w, "IntegrityError")
                /\ tracks' = [tracks EXCEPT ![t].status = "error",
                                            ![t].error_message = Some("IntegrityError")]
                /\ UNCHANGED <<edges, nextEdgeId>>
           ELSE /\ edges' = kept \cup scores
                /\ nextEdgeId' = nextEdgeId + Cardinality(scores)
                /\ tracks' = [tracks EXCEPT ![t].has_similarity = TRUE]
                /\ worker' = Ended(w, "returned", "computed", Cardinality(targets))
    /\ UNCHANGED <<features, queue, extra>>

\* The two loops and session.commit(): the transaction's DELETE, its INSERTs
\* and has_similarity become visible together, or an IntegrityError on the
\* unique pair rolls all of it back and is re-raised.
SimCommit(w) ==
    /\ At(w, "compute_similarity_for_track", "sim_commit")
    /\ LET t == worker[w].track_id
           targets == target_vectors(worker[w].all_features, t)
           scores == NewScores(t, worker[w].source_values[1], targets, nextEdgeId)
           kept == {e \in edges : e.id \notin worker[w].deleted}
       IN  IF ViolatesUniquePair(kept, scores)
           THEN /\ worker' = Raise(w, "IntegrityError")
                /\ UNCHANGED <<tracks, edges, nextEdgeId>>
           ELSE /\ edges' = kept \cup scores
                /\ nextEdgeId' = nextEdgeId + Cardinality(scores)
                /\ tracks' = [tracks EXCEPT ![t].has_similarity = TRUE]
                /\ worker' = Ended(w, "returned", "computed", Cardinality(targets))
    /\ UNCHANGED <<features, queue, extra>>

\* The pipeline's steps take a load_audio call as one step with one of its
\* outcomes; they do not follow it.
Next ==
    \/ \E t \in TrackIds : upload_track(t) /\ UNCHANGED <<load, essentia, similar, upload>>
    \/ \E w \in Workers, m \in Messages : Deliver(w, m) /\ UNCHANGED <<load, essentia, similar, upload>>
    \/ \E w \in Workers, m \in Messages : Redeliver(w, m) /\ UNCHANGED <<load, essentia, similar, upload>>
    \/ \E t \in TrackIds : TriggerSimilarity(t) /\ UNCHANGED <<load, essentia, similar, upload>>
    \/ \E w \in Workers : Finish(w) /\ UNCHANGED <<load, essentia, similar, upload>>
    \/ \E w \in Workers : ProcLoaded(w) /\ UNCHANGED <<load, essentia, similar, upload>>
    \/ \E w \in Workers : ProcLoadFailed(w) /\ UNCHANGED <<load, essentia, similar, upload>>
    \/ \E w \in Workers : ProcDispatch(w) /\ UNCHANGED <<load, essentia, similar, upload>>
    \/ \E w \in Workers : ProcDispatchFailed(w) /\ UNCHANGED <<load, essentia, similar, upload>>
    \/ \E w \in Workers : ExtCommit(w) /\ UNCHANGED <<load, essentia, similar, upload>>
    \/ \E w \in Workers : ExtLoadFailed(w) /\ UNCHANGED <<load, essentia, similar, upload>>
    \/ \E w \in Workers : ExtDispatch(w) /\ UNCHANGED <<load, essentia, similar, upload>>
    \/ \E w \in Workers : ExtDispatchFailed(w) /\ UNCHANGED <<load, essentia, similar, upload>>
    \/ \E w \in Workers : SimCheck(w) /\ UNCHANGED <<load, essentia, similar, upload>>
    \/ \E w \in Workers : SimDelete(w) /\ UNCHANGED <<load, essentia, similar, upload>>
    \/ \E w \in Workers : SimScan(w) /\ UNCHANGED <<load, essentia, similar, upload>>
    \/ \E w \in Workers : SimCommit(w) /\ UNCHANGED <<load, essentia, similar, upload>>

Spec == Init /\ [][Next]_vars

\* ------------------------------------------------ fair execution ----
\* The steps of the task worker w is running, and its finally block.
WorkerStep(w) ==
    \/ ProcLoaded(w) \/ ProcLoadFailed(w) \/ ProcDispatch(w) \/ ProcDispatchFailed(w)
    \/ ExtCommit(w) \/ ExtLoadFailed(w) \/ ExtDispatch(w) \/ ExtDispatchFailed(w)
    \/ SimCheck(w) \/ SimDelete(w) \/ SimScan(w) \/ SimCommit(w)
    \/ Finish(w)

\* The pipeline with a broker that delivers every message once and with no
\* sender but the pipeline itself.
FairNext ==
    \/ \E t \in TrackIds : upload_track(t) /\ UNCHANGED <<load, essentia, similar, upload>>
    \/ \E w \in Workers, m \in Messages : Deliver(w, m) /\ UNCHANGED <<load, essentia, similar, upload>>
    \/ \E w \in Workers : WorkerStep(w) /\ UNCHANGED <<load, essentia, similar, upload>>

\* A worker that has a task goes on with it, and the broker hands a waiting
\* message to an idle worker.
FairSpec ==
    /\ Init /\ [][FairNext]_vars
    /\ \A w \in Workers : WF_vars(WorkerStep(w) /\ UNCHANGED <<load, essentia, similar, upload>>)
    /\ WF_vars(\E w \in Workers, m \in Messages :
                  Deliver(w, m) /\ UNCHANGED <<load, essentia, similar, upload>>)

\* The pipeline with at-least-once delivery and outside senders, and a broker
\* that accepts every dispatch.
ReliableNext ==
    \/ \E t \in TrackIds : upload_track(t) /\ UNCHANGED <<load, essentia, similar, upload>>
    \/ \E w \in Workers, m \in Messages : Deliver(w, m) /\ UNCHANGED <<load, essentia, similar, upload>>
    \/ \E w \in Workers, m \in Messages : Redeliver(w, m) /\ UNCHANGED <<load, essentia, similar, upload>>
    \/ \E t \in TrackIds : TriggerSimilarity(t) /\ UNCHANGED <<load, essentia, similar, upload>>
    \/ \E w \in Workers : Finish(w) /\ UNCHANGED <<load, essentia, similar, upload>>
    \/ \E w \in Workers : ProcLoaded(w) /\ UNCHANGED <<load, essentia, similar, upload>>
    \/ \E w \in Workers : ProcLoadFailed(w) /\ UNCHANGED <<load, essentia, similar, upload>>
    \/ \E w \in Workers : ProcDispatch(w) /\ UNCHANGED <<load, essentia, similar, upload>>
    \/ \E w \in Workers : ExtCommit(w) /\ UNCHANGED <<load, essentia, similar, upload>>
    \/ \E w \in Workers : ExtLoadFailed(w) /\ UNCHANGED <<load, essentia, similar, upload>>
    \/ \E w \in Workers : ExtDispatch(w) /\ UNCHANGED <<load, essentia, similar, upload>>
    \/ \E w \in Workers : SimCheck(w) /\ UNCHANGED <<load, essentia, similar, upload>>
    \/ \E w \in Workers : SimDelete(w) /\ UNCHANGED <<load, essentia, similar, upload>>
    \/ \E w \in Workers : SimScan(w) /\ UNCHANGED <<load, essentia, similar, upload>>
    \/ \E w \in Workers : SimCommit(w) /\ UNCHANGED <<load, essentia, similar, upload>>

ReliableSpec == Init /\ [][ReliableNext]_vars

\* ======================================================== load_audio ====
\* One call of load_audio followed step by step, with the request or task
\* that made it.  Durations are in hundredths of a second.
SUPPORTED_FORMATS == {".wav", ".mp3", ".aif", ".aiff", ".flac"}
MIN_DURATION_SECONDS == 50

\* An ordering of the loaders list other than the code's.
loaders_FfmpegFirst == <<"ffmpeg", "soundfile", "audioread">>

\* The loaders list, in its order.
loaders == <<"soundfile", "audioread", "ffmpeg">>

\* The files a call can be made on: the path exists or not, its suffix is a
\* supported one or not, and what it holds decodes to nothing, to 0.2 s or
\* to 2 s of audio.
Extensions == {".wav", ".txt"}
Durations == {0, 20, 200}
Files == [exists : BOOLEAN, ext : Extensions, duration : Durations]

\* An exception: its class, its message, the duration its message quotes (if
\* any) and the exception its message embeds (if any).
Exception(kind, text) ==
    [kind |-> kind, text |-> text, duration |-> None, cause |-> None]

\* The AudioLoaderError hierarchy.
AudioLoaderErrors ==
    {"UnsupportedFormatError", "AudioDecodeError", "EmptyAudioError", "AudioTooShortError"}

\* str(exc): the message, followed by the embedded exception's.
Str(exc) ==
    IF exc.cause = None
    THEN <<[text |-> exc.text, duration |-> exc.duration]>>
    ELSE <<[text |-> exc.text, duration |-> exc.duration],
           [text |-> exc.cause[1].text, duration |-> exc.cause[1].duration]>>

\* What a function hands back: a waveform of some duration, or an exception.
Loaded(d) == [ok |-> TRUE, duration |-> Some(d), error |-> None]
Raised(e) == [ok |-> FALSE, duration |-> None, error |-> Some(e)]

\* _post_process.
post_process(duration) ==
    IF duration = 0
    THEN Raised(Exception("EmptyAudioError", "Decoded audio is empty"))
    ELSE IF duration < MIN_DURATION_SECONDS
    THEN Raised([Exception("AudioTooShortError", "Audio duration is less than minimum")
                    EXCEPT !.duration = Some(duration)])
    ELSE Loaded(duration)

\* _load_with_soundfile: sf.read decodes the file or raises.
load_with_soundfile(file) ==
    {Loaded(file.duration), Raised(Exception("LibsndfileError", "Error opening file"))}

\* _load_with_audioread: audio_open raises, or the chunks are read; no chunk
\* at all is an EmptyAudioError.
load_with_audioread(file) ==
    { IF file.duration = 0
      THEN Raised(Exception("EmptyAudioError", "audioread produced no samples"))
      ELSE Loaded(file.duration),
      Raised(Exception("NoBackendError", "")) }

\* The try block of _load_with_ffmpeg: ffmpeg transcodes and the scratch file
\* is read; ffmpeg exits non-zero (CalledProcessError, turned into
\* AudioDecodeError); ffmpeg cannot be started; the scratch file cannot be read.
load_with_ffmpeg(file) ==
    { Loaded(file.duration),
      Raised(Exception("AudioDecodeError", "ffmpeg failed to decode")),
      Raised(Exception("FileNotFoundError", "No such file or directory: ffmpeg")),
      Raised(Exception("LibsndfileError", "Error opening file")) }

StartLoad(caller, w, file) ==
    [NoLoad EXCEPT !.pc = "check", !.caller = caller, !.worker = w, !.file = file]

\* One turn of the for loop after the loader came back with raw: on a
\* waveform _post_process runs inside the same try; a result is returned, an
\* exception of either kind is kept as last_error and the loop goes on.
end_attempt(l, name, raw) ==
    LET result == IF raw.ok THEN post_process(raw.duration[1]) ELSE raw IN
    [l EXCEPT !.attempts = Append(@, [loader |-> name, decoded |-> raw.ok,
                                      result |-> result]),
              !.post_processed = IF raw.ok THEN @ + 1 ELSE @,
              !.last_error = IF result.ok THEN @ ELSE result.error,
              !.next = IF result.ok THEN @ ELSE @ + 1,
              !.pc = IF result.ok THEN "returned" ELSE "loop",
              !.pending = None,
              !.outcome = IF result.ok THEN Some(result) ELSE @]

pipeline == <<tracks, features, edges, nextEdgeId, queue, worker, extra>>

\* load_audio up to the loop: the existence check, then the suffix check.
LoadCheck ==
    /\ load.pc = "check"
    /\ load' =
         IF ~ load.file.exists
         THEN [load EXCEPT !.pc = "raised",
                 !.outcome = Some(Raised(Exception("AudioDecodeError", "Audio file not found")))]
         ELSE IF load.file.ext \notin SUPPORTED_FORMATS
         THEN [load EXCEPT !.pc = "raised",
                 !.outcome = Some(Raised(Exception("UnsupportedFormatError", "Unsupported audio format")))]
         ELSE [load EXCEPT !.pc = "loop", !.next = 1]
    /\ UNCHANGED pipeline

\* A turn of the loop with the soundfile or the audioread loader.
LoadAttempt ==
    /\ load.pc = "loop"
    /\ load.next <= Len(loaders)
    /\ loaders[load.next] \in {"soundfile", "audioread"}
    /\ \E raw \in IF loaders[load.next] = "soundfile"
                  THEN load_with_soundfile(load.file)
                  ELSE load_with_audioread(load.file) :
         load' = end_attempt(load, loaders[load.next], raw)
    /\ UNCHANGED pipeline

\* _load_with_ffmpeg: NamedTemporaryFile(suffix=".wav", delete=False).
FfmpegScratch ==
    /\ load.pc = "loop"
    /\ load.next <= Len(loaders)
    /\ loaders[load.next] = "ffmpeg"
    /\ load' = [load EXCEPT !.pc = "ffmpeg_run", !.scratch = "exists"]
    /\ UNCHANGED pipeline

\* _load_with_ffmpeg: the try block, the ffmpeg process having exited; its
\* result waits for the finally.
FfmpegRun ==
    /\ load.pc = "ffmpeg_run"
    /\ \E raw \in load_with_ffmpeg(load.file) :
         load' = [load EXCEPT !.pc = "ffmpeg_finally", !.pending = Some(raw)]
    /\ UNCHANGED pipeline

\* _load_with_ffmpeg: subprocess.run(cmd, check=True) is given no
\* timeout, so on an ffmpeg process that never exits it waits for ever: no
\* step of load_audio follows.
FfmpegBlocked ==
    /\ load.pc = "ffmpeg_run"
    /\ load' = [load EXCEPT !.pc = "ffmpeg_blocked"]
    /\ UNCHANGED pipeline

\* A finally block that lets the OSError of unlink escape.
ffmpeg_finally_Escalates(l, unlink_ok) ==
    [l EXCEPT !.scratch = IF unlink_ok THEN "deleted" ELSE "exists",
              !.pending = IF unlink_ok THEN @
                          ELSE Some(Raised(Exception("OSError", "unlink failed")))]

\* The finally block of _load_with_ffmpeg: the scratch file is unlinked; an
\* OSError is logged and the block's result stands.
ffmpeg_finally(l, unlink_ok) ==
    [l EXCEPT !.scratch = IF unlink_ok THEN "deleted" ELSE "exists",
              !.unlink_logged = ~ unlink_ok]

FfmpegFinally ==
    /\ load.pc = "ffmpeg_finally"
    /\ \E unlink_ok \in BOOLEAN :
         LET l == ffmpeg_finally(load, unlink_ok) IN
         load' = end_attempt(l, "ffmpeg", l.pending[1])
    /\ UNCHANGED pipeline

\* After the loop: AudioDecodeError(f"Unable to decode ...: {last_error}")
\* from last_error.
LoadGiveUp ==
    /\ load.pc = "loop"
    /\ load.next > Len(loaders)
    /\ load' = [load EXCEPT !.pc = "raised",
                  !.outcome = Some(Raised(
                      [Exception("AudioDecodeError", "Unable to decode audio file")
                          EXCEPT !.cause = load.last_error]))]
    /\ UNCHANGED pipeline

\* upload_track up to its load_audio call: the file has been saved under the
\* new track's directory, so it exists.
UploadRequest(file) ==
    /\ load.pc = "none"
    /\ \E t \in TrackIds : tracks[t] = NoTrack
    /\ file.exists
    /\ load' = StartLoad("upload_track", 0, file)
    /\ upload' = [upload EXCEPT !.response = 0, !.request_file = TRUE]
    /\ UNCHANGED pipeline

\* upload_track after load_audio returned: the row, the dispatch, the 200.
UploadAccepted(t) ==
    /\ load.caller = "upload_track"
    /\ load.pc = "returned"
    /\ upload_track(t)
    /\ load' = NoLoad
    /\ upload' = [upload EXCEPT !.response = 200, !.request_file = FALSE,
                                !.stored = @ \cup {t}]

\* An except branch that answers without unlinking the saved file.
upload_rejected_KeepsFile(u) ==
    [u EXCEPT !.response = 400, !.request_file = FALSE, !.leftover = TRUE]

\* The except AudioLoaderError branch of upload_track:
\* saved_file_path.unlink(missing_ok=True), then the 400.
upload_rejected(u) == [u EXCEPT !.response = 400, !.request_file = FALSE]

\* upload_track after load_audio raised: the file is unlinked, 400.
UploadRejected ==
    /\ load.caller = "upload_track"
    /\ load.pc = "raised"
    /\ load' = NoLoad
    /\ upload' = upload_rejected(upload)
    /\ UNCHANGED pipeline

\* process_audio up to its load_audio call.  The task is given a path; what
\* the worker finds there is not tied to what upload_track validated.
ProcessAudioLoad(w, file) ==
    /\ load.pc = "none"
    /\ At(w, "process_audio", "proc_load")
    /\ load' = StartLoad("process_audio", w, file)
    /\ UNCHANGED pipeline

ProcessAudioLoaded(w) ==
    /\ load.caller = "process_audio"
    /\ load.worker = w
    /\ load.pc = "returned"
    /\ process_audio_loaded(w, 44100, load.outcome[1].duration[1])
    /\ load' = NoLoad

\* load_audio raises AudioLoaderErrors only: the except AudioLoaderError
\* branch of process_audio.
ProcessAudioFailed(w) ==
    /\ load.caller = "process_audio"
    /\ load.worker = w
    /\ load.pc = "raised"
    /\ load.outcome[1].error[1].kind \in AudioLoaderErrors
    /\ process_audio_failed(w, Str(load.outcome[1].error[1]))
    /\ load' = NoLoad

LoaderNext ==
    \/ \E file \in Files : UploadRequest(file) /\ UNCHANGED <<essentia, similar>>
    \/ LoadCheck /\ UNCHANGED <<essentia, similar, upload>>
    \/ LoadAttempt /\ UNCHANGED <<essentia, similar, upload>>
    \/ FfmpegScratch /\ UNCHANGED <<essentia, similar, upload>>
    \/ FfmpegRun /\ UNCHANGED <<essentia, similar, upload>>
    \/ FfmpegBlocked /\ UNCHANGED <<essentia, similar, upload>>
    \/ FfmpegFinally /\ UNCHANGED <<essentia, similar, upload>>
    \/ LoadGiveUp /\ UNCHANGED <<essentia, similar, upload>>
    \/ \E t \in TrackIds : UploadAccepted(t) /\ UNCHANGED <<essentia, similar>>
    \/ UploadRejected /\ UNCHANGED <<essentia, similar>>
    \/ \E w \in Workers, m \in Messages : Deliver(w, m) /\ UNCHANGED <<load, essentia, similar, upload>>
    \/ \E w \in Workers, file \in Files : ProcessAudioLoad(w, file) /\ UNCHANGED <<essentia, similar, upload>>
    \/ \E w \in Workers : ProcessAudioLoaded(w) /\ UNCHANGED <<essentia, similar, upload>>
    \/ \E w \in Workers : ProcessAudioFailed(w) /\ UNCHANGED <<essentia, similar, upload>>

LoaderSpec == Init /\ [][LoaderNext]_vars

\* The interpreter keeps running the request or task that called load_audio:
\* every step of the call that can be taken is taken.  What the ffmpeg process
\* does is not the interpreter's to decide: FfmpegRun needs it to exit.
LoaderFairSpec ==
    /\ LoaderSpec
    /\ WF_vars(LoadCheck /\ UNCHANGED <<essentia, similar, upload>>)
    /\ WF_vars(LoadAttempt /\ UNCHANGED <<essentia, similar, upload>>)
    /\ WF_vars(FfmpegScratch /\ UNCHANGED <<essentia, similar, upload>>)
    /\ WF_vars((FfmpegRun \/ FfmpegBlocked) /\ UNCHANGED <<essentia, similar, upload>>)
    /\ WF_vars(FfmpegFinally /\ UNCHANGED <<essentia, similar, upload>>)
    /\ WF_vars(LoadGiveUp /\ UNCHANGED <<essentia, similar, upload>>)

\* =============================================== essentia_extraction ====
\* One call of essentia_extraction.  The Essentia algorithms are a library:
\* what they compute on a waveform is a value drawn from EssentiaSignals, and
\* whether one of them raises is the library's doing.
Families == {"rms_envelope", "spectral_shape", "mfcc", "bpm", "key"}

\* The order in which the function runs the families.
FamilyOrder == <<"rms_envelope", "spectral_shape", "mfcc", "bpm", "key">>

\* The library's results on a waveform: the three baseline scalars, the frame
\* RMS values, the means of the spectral-shape frames, the mean MFCC vector
\* (every coefficient the same here), the tempo, and KeyExtractor's triple.
EssentiaSignals ==
    { [spectral_centroid |-> 3, rms |-> 1, peak_amplitude |-> 1,
       rms_envelope |-> <<1, 1>>, spectral_flux |-> 1, rolloff |-> 4,
       flatness |-> 1, mfcc |-> 1, bpm |-> 120,
       key |-> "A", scale |-> "minor", strength |-> 1],
      [spectral_centroid |-> 1, rms |-> 3, peak_amplitude |-> 3,
       rms_envelope |-> <<3>>, spectral_flux |-> 2, rolloff |-> 5,
       flatness |-> 2, mfcc |-> 2, bpm |-> 90,
       key |-> "C", scale |-> "major", strength |-> 2] }

\* _placeholder_features.  A list that may be empty is Some(list), so that
\* [] and None differ.
placeholder_features ==
    [spectral_centroid |-> None, rms |-> None, peak_amplitude |-> None,
     mfcc |-> [i \in 1..MfccSize |-> 0],
     bpm |-> None, key |-> None, key_strength |-> None,
     rms_envelope |-> Some(<<>>),
     spectral_flux |-> None, rolloff |-> None, flatness |-> None]

\* dict.update, for keys the dictionary has.
Update(d, u) == [k \in DOMAIN d |-> IF k \in DOMAIN u THEN u[k] ELSE d[k]]

\* formatted_key: the key, with "m" appended unless the scale is major.
formatted_key(signal) ==
    IF signal.scale = "major" THEN <<signal.key>> ELSE <<signal.key, "m">>

\* What the try block of a family assigns to features when nothing raises.
family_values(f, signal) ==
    CASE f = "rms_envelope" -> [rms_envelope |-> Some(signal.rms_envelope)]
      [] f = "spectral_shape" -> [spectral_flux |-> Some(signal.spectral_flux),
                                  rolloff |-> Some(signal.rolloff),
                                  flatness |-> Some(signal.flatness)]
      [] f = "mfcc" -> [mfcc |-> [i \in 1..MfccSize |-> signal.mfcc]]
      [] f = "bpm" -> [bpm |-> Some(signal.bpm)]
      [] f = "key" -> [key |-> Some(formatted_key(signal)),
                       key_strength |-> Some(signal.strength)]

\* A family's except branch that starts over from the placeholders.
family_except_ResetsAll(e, f) ==
    [e EXCEPT !.logged = @ \cup {f}, !.features = placeholder_features]

\* A family's except Exception branch: the exception is logged and the
\* dictionary stays as it is.
family_except(e, f) == [e EXCEPT !.logged = @ \cup {f}]

\* One family: skipped when its capability flag is off, else its try block.
\* The library raises before the block assigns anything.
family(e, f, has, failing, signal) ==
    IF f \notin has THEN e
    ELSE IF f \in failing THEN family_except(e, f)
    ELSE [e EXCEPT !.features = Update(@, family_values(f, signal))]

\* The families from the i-th on, in order.
RECURSIVE families(_, _, _, _, _)
families(e, i, has, failing, signal) ==
    IF i > Len(FamilyOrder) THEN e
    ELSE families(family(e, FamilyOrder[i], has, failing, signal),
                  i + 1, has, failing, signal)

\* essentia_extraction: {} when the library is missing, the file is not a
\* .wav, the buffer is empty or MonoLoader or a baseline algorithm raises
\* (the outer except); otherwise the placeholders, the three scalars, and
\* what the families add.  logged is what logger.exception was called for.
essentia_extraction(available, ext, core, has, failing, signal) ==
    IF ~ available \/ ext # ".wav" \/ core = "empty"
    THEN [features |-> <<>>, logged |-> {}]
    ELSE IF core = "raises"
    THEN [features |-> <<>>, logged |-> {"core"}]
    ELSE families([features |->
                       Update(placeholder_features,
                              [spectral_centroid |-> Some(signal.spectral_centroid),
                               rms |-> Some(signal.rms),
                               peak_amplitude |-> Some(signal.peak_amplitude)]),
                   logged |-> {}],
                  1, has, failing, signal)

\* The capability flags that can be set together: HAS_SPECTRAL_SHAPE needs
\* FrameGenerator, which is HAS_FRAME_GENERATOR.
CapabilityFlags ==
    {has \in SUBSET Families : "spectral_shape" \in has => "rms_envelope" \in has}

\* basic_extraction calls essentia_extraction(track_path).  HAS_MFCC does not
\* look at FrameGenerator: without it the MFCC family raises.
EssentiaCall ==
    /\ essentia.pc = "none"
    /\ \E available \in BOOLEAN, ext \in {".wav", ".mp3"},
          core \in {"ok", "empty", "raises"}, has \in CapabilityFlags,
          failing \in SUBSET Families, signal \in EssentiaSignals :
         /\ ("mfcc" \in has /\ "rms_envelope" \notin has) => "mfcc" \in failing
         /\ essentia' = [NoExtraction EXCEPT
                            !.pc = "called", !.available = available,
                            !.ext = ext, !.core = core, !.has = has,
                            !.failing = failing, !.signal = signal]
    /\ UNCHANGED <<pipeline, load, similar, upload>>

\* The call returns its dictionary.
EssentiaReturn ==
    /\ essentia.pc = "called"
    /\ LET r == essentia_extraction(essentia.available, essentia.ext, essentia.core,
                                    essentia.has, essentia.failing, essentia.signal)
       IN  essentia' = [essentia EXCEPT !.pc = "returned",
                                        !.features = r.features,
                                        !.logged = r.logged]
    /\ UNCHANGED <<pipeline, load, similar, upload>>

\* basic_extraction goes on; the next call is another one.
EssentiaDone ==
    /\ essentia.pc = "returned"
    /\ essentia' = NoExtraction
    /\ UNCHANGED <<pipeline, load, similar, upload>>

EssentiaNext ==
    \/ EssentiaCall
    \/ EssentiaReturn
    \/ EssentiaDone

EssentiaSpec == Init /\ [][EssentiaNext]_vars

\* ================================================ get_similar_tracks ====
\* GET /tracks/<track_id>/similar against a store in which
\* compute_similarity_for_track has run for track 1.
QueryTracks == 22
QueryIds == 1..QueryTracks

\* .limit(20)
SimilarLimit == 20

\* The rows with the largest score.
Largest(rows) == {x \in rows : \A y \in rows : y.score <= x.score}

\* ORDER BY score DESC LIMIT n: the sequences the database may hand back; it
\* orders rows of equal score as it likes.
RECURSIVE order_by_score_desc_limit(_, _)
order_by_score_desc_limit(rows, n) ==
    IF n = 0 \/ rows = {} THEN {<<>>}
    ELSE UNION { { <<r>> \o rest : rest \in order_by_score_desc_limit(rows \ {r}, n - 1) } :
                 r \in Largest(rows) }

\* get_similar_tracks: 404 for an unknown track; else the source's rows whose
\* target track exists (the join), ordered and limited, as the list of
\* (target_track_id, score) entries.
get_similar_tracks(track_rows, edge_rows, track_id) ==
    IF track_rows[track_id] = NoTrack
    THEN {[status |-> 404, track_id |-> track_id, data |-> <<>>]}
    ELSE LET joined == {e \in edge_rows : /\ e.source_track_id = track_id
                                          /\ track_rows[e.target_track_id] # NoTrack}
         IN  { [status |-> 200, track_id |-> track_id,
                data |-> [i \in 1..Len(scores) |->
                             [target_track_id |-> scores[i].target_track_id,
                              score |-> scores[i].score]]] :
               scores \in order_by_score_desc_limit(joined, SimilarLimit) }

\* One request is followed.
GetSimilar(track_id) ==
    /\ similar = NoResponse
    /\ similar' \in get_similar_tracks(tracks, edges, track_id)
    /\ UNCHANGED <<pipeline, load, essentia, upload>>

\* How the rms of the tracks of a store lies around that of track 1: further
\* from it with every later track, nearer to it with every later track, or
\* in pairs at the same distance.
Profiles == {"further", "nearer", "pairs"}
ProfileRms(profile, t) ==
    CASE profile = "further" -> t
      [] profile = "nearer" -> IF t = 1 THEN 1 ELSE QueryTracks + 3 - t
      [] profile = "pairs" -> 1 + (t \div 2)

\* The first n tracks are uploaded and features_ready, and
\* compute_similarity_for_track(1) has committed.
QueryInit ==
    \E n \in QueryIds, profile \in Profiles :
      LET row(t) == AudioFeature(t, basic_extraction(
                        [samplerate |-> 44100, duration |-> 200,
                         rms |-> ProfileRms(profile, t),
                         spectral_centroid |-> 1, peak_amplitude |-> 1],
                        FALSE, <<>>))
          rows == {row(t) : t \in 1..n}
          scores == NewScores(1, extract_basic_feature_values(row(1))[1],
                              target_vectors(rows, 1), 1)
      IN  /\ tracks = [t \in QueryIds |->
                          IF t > n THEN NoTrack
                          ELSE [NewTrack EXCEPT !.status = "features_ready",
                                                !.samplerate = Some(44100),
                                                !.duration = Some(200),
                                                !.has_similarity = (t = 1)]]
          /\ features = rows
          /\ edges = scores
          /\ nextEdgeId = 1 + Cardinality(scores)
          /\ queue = [m \in Messages |-> 0]
          /\ worker = [w \in Workers |-> IdleWorker]
          /\ extra = 0
          /\ load = NoLoad
          /\ essentia = NoExtraction
          /\ similar = NoResponse
          /\ upload = NoUpload

QueryNext == \E track_id \in QueryIds : GetSimilar(track_id)

QuerySpec == QueryInit /\ [][QueryNext]_vars

\* ============================================================ claims ====
Stages == {"process_audio", "extract_features"}
Similarity == "compute_similarity_for_track"
Exists(t) == tracks[t] # NoTrack
RowsOf(rows, t) == {r \in rows : r.track_id = t}
OutEdges(rows, s) == {e \in rows : e.source_track_id = s}
OutIds(rows, s) == {e.id : e \in OutEdges(rows, s)}
OutTargets(rows, s) == {e.target_track_id : e \in OutEdges(rows, s)}
\* The outgoing edge set of s as (target, score) pairs, row ids aside.
EdgeSet(rows, s) == {<<e.target_track_id, e.score>> : e \in OutEdges(rows, s)}
\* The tracks other than s with a stored FeatureVector whose rms,
\* spectral_centroid and peak_amplitude are all non-null.
ValidTargets(rows, s) ==
    {r.track_id : r \in {x \in rows : /\ x.track_id # s
                                       /\ x.rms # None
                                       /\ x.spectral_centroid # None
                                       /\ x.peak_amplitude # None}}
\* Worker w takes the step that leaves pc.
Leaves(w, task, pc) == At(w, task, pc) /\ worker'[w].pc # pc

\* ---------------------------------------------------------------- C1 ----
\* C1: re-delivery is idempotent. An extract_features execution on a track
\* that is already features_ready with a stored FeatureVector, whose
\* extraction itself succeeds, completes successfully, leaves exactly one
\* FeatureVector row for the track and leaves the track features_ready.
C1_RedeliveryIdempotent ==
    [][\A w \in Workers :
         LET t == worker[w].track_id IN
         ( /\ Leaves(w, "extract_features", "ext_extract")
           /\ tracks[t].status = "features_ready"
           /\ RowsOf(features, t) # {}
           /\ worker'[w].result \notin LoaderErrors )
         => /\ worker'[w].pc = "ext_dispatch"
            /\ Cardinality(RowsOf(features', t)) = 1
            /\ tracks'[t].status = "features_ready"]_vars

\* ---------------------------------------------------------------- C2 ----
\* The pipeline order uploaded < loaded < extracting < features_ready; the
\* status upload_track writes stands where uploaded does.
StatusRank(status) ==
    CASE status \in {"uploaded", "processing"} -> 1
      [] status = "loaded" -> 2
      [] status = "extracting" -> 3
      [] status = "features_ready" -> 4
      [] OTHER -> 0

\* C2: every change of a track's status either moves strictly forward in the
\* pipeline order or sets it to error; no task moves a status backward.
C2_StatusMonotonic ==
    [][\A t \in TrackIds :
         (Exists(t) /\ tracks'[t].status # tracks[t].status)
         => \/ tracks'[t].status = "error"
            \/ /\ StatusRank(tracks[t].status) > 0
               /\ StatusRank(tracks[t].status) < StatusRank(tracks'[t].status)]_vars

\* ---------------------------------------------------------------- C3 ----
\* C3: in every persisted state a track's error_message is non-null if and
\* only if its status is error.
C3_ErrorMessageIffError ==
    \A t \in TrackIds :
        Exists(t) => ((tracks[t].error_message # None) <=> (tracks[t].status = "error"))

\* ---------------------------------------------------------------- C4 ----
\* C4: in every persisted state every track's status is one of uploaded,
\* loaded, extracting, features_ready, error (a track no stage has touched
\* yet has uploaded).
C4_StatusInEnum ==
    \A t \in TrackIds : Exists(t) => tracks[t].status \in StatusEnum

\* ---------------------------------------------------------------- C5 ----
Successor(task) ==
    IF task = "process_audio" THEN "extract_features" ELSE Similarity

\* C5: whenever a process_audio or extract_features execution fails, by a
\* declared loader error or by an unexpected exception, the track is left
\* with status error and a non-empty error_message, and the execution has
\* dispatched no successor stage.
C5_FailureMarksError ==
    [][\A w \in Workers :
         LET t == worker[w].track_id IN
         ( /\ worker[w].task \in Stages
           /\ worker[w].pc \notin Terminal
           /\ worker'[w].pc \in Terminal
           /\ worker'[w].result # "ok" )
         => /\ tracks'[t].status = "error"
            /\ tracks'[t].error_message # None
            /\ queue'[Msg(Successor(worker[w].task), t)]
                   <= queue[Msg(Successor(worker[w].task), t)]]_vars

\* ---------------------------------------------------------------- C6 ----
\* C6: once a track's status is features_ready or error, no step of any task
\* changes it again.
C6_TerminalStatusStays ==
    [][\A t \in TrackIds :
         (Exists(t) /\ tracks[t].status \in {"features_ready", "error"})
         => tracks'[t].status = tracks[t].status]_vars

\* ---------------------------------------------------------------- C7 ----
\* C7: compute_similarity_for_track executions for one source are serialized:
\* however their delete, scan and insert steps interleave, none of them ends
\* with an error, and what they leave is the edge set of one of them: when
\* two of them have ended, the source's edges are one per scanned target and
\* their count is what each returned.
C7_SerializedPerSource ==
    /\ \A w \in Workers : worker[w].task = Similarity => worker[w].pc # "raised"
    /\ \A w, v \in Workers :
         ( /\ w # v
           /\ worker[w].pc = "returned" /\ worker[v].pc = "returned"
           /\ worker[w].task = Similarity /\ worker[v].task = Similarity
           /\ worker[w].track_id = worker[v].track_id
           /\ worker[w].result = "computed" /\ worker[v].result = "computed" )
         => \/ Cardinality(OutEdges(edges, worker[w].track_id)) = worker[w].computed
            \/ Cardinality(OutEdges(edges, worker[w].track_id)) = worker[v].computed

\* ---------------------------------------------------------------- C8 ----
\* An execution no other commit interleaved with: the feature table is as its
\* scan returned it, and the source's edges are the rows its DELETE found.
RanAlone(w) ==
    /\ worker[w].all_features = features
    /\ worker[w].deleted = OutIds(edges, worker[w].track_id)

C9_RecomputeIdempotent ==
    [][\A w \in Workers :
         LET s == worker[w].track_id IN
         ( /\ Leaves(w, Similarity, "sim_commit")
           /\ worker'[w].result = "computed"
           /\ RanAlone(w)
           /\ tracks[s].has_similarity
           /\ OutTargets(edges, s) = ValidTargets(features, s) )
         => EdgeSet(edges', s) = EdgeSet(edges, s)]_vars

\* A second run for S has returned: the only stored edge is S's, it is the
\* second row the table's sequence ever gave out, and no other source has run.
C9_Witness ==
    \E w \in Workers :
        /\ worker[w].task = Similarity /\ worker[w].pc = "returned"
        /\ worker[w].result = "computed" /\ worker[w].computed = 1
        /\ edges = OutEdges(edges, worker[w].track_id)
        /\ Cardinality(edges) = 1
        /\ \A e \in edges : e.id = 2
        /\ nextEdgeId = 3

\* --------------------------------------------------------------- C10 ----
\* The source has no FeatureVector, or one lacking rms, spectral_centroid or
\* peak_amplitude.
SourceIncomplete(s) ==
    \/ RowsOf(features, s) = {}
    \/ \E r \in RowsOf(features, s) :
         r.rms = None \/ r.spectral_centroid = None \/ r.peak_amplitude = None

IncompleteOutcomes == {"No features for source track", "Incomplete source features"}

\* C10: when the source track's FeatureVector lacks rms, spectral_centroid or
\* peak_amplitude, or the source has none, compute_similarity_for_track ends
\* with the incomplete-features outcome and has written nothing: every edge,
\* every track (has_similarity included) and every FeatureVector is as before.
C10_IncompleteSourceWritesNothing ==
    [][\A w \in Workers :
         LET s == worker[w].track_id IN
         ( /\ Leaves(w, Similarity, "sim_check")
           /\ Exists(s)
           /\ SourceIncomplete(s) )
         => /\ worker'[w].pc = "returned"
            /\ worker'[w].result \in IncompleteOutcomes
            /\ UNCHANGED <<tracks, features, edges, nextEdgeId, queue>>]_vars

\* An execution for an uploaded track without FeatureVector has been turned
\* away; the track has no edges and no has_similarity.
C10_Witness ==
    \E w \in Workers :
        /\ worker[w].task = Similarity /\ worker[w].pc = "returned"
        /\ worker[w].result \in IncompleteOutcomes
        /\ Exists(worker[w].track_id)
        /\ SourceIncomplete(worker[w].track_id)
        /\ ~ tracks[worker[w].track_id].has_similarity
        /\ OutEdges(edges, worker[w].track_id) = {}

\* --------------------------------------------------------------- C11 ----
\* C11: in every state of the store, whatever recomputes ran and however they
\* interleaved, no stored SimilarityScore has source_track_id equal to
\* target_track_id, and no two stored rows have the same ordered
\* (source, target) pair.
C11_NoSelfEdgeOnePerPair ==
    /\ \A e \in edges : e.source_track_id # e.target_track_id
    /\ \A e, g \in edges :
         (e.source_track_id = g.source_track_id /\ e.target_track_id = g.target_track_id)
         => e = g

\* Two recomputes of one source interleaved (the later commit was refused)
\* and the store holds edges.
C11_Witness ==
    /\ edges # {}
    /\ \E w \in Workers : /\ worker[w].task = Similarity
                          /\ worker[w].pc = "raised"
                          /\ OutEdges(edges, worker[w].track_id) # {}

\* --------------------------------------------------------------- C12 ----
\* The scenario store: three tracks that went through the pipeline with the
\* extended capability off, no similarity computed yet, and a
\* compute_similarity_for_track message for the first of them.
ScenarioTracks == 3
ScenarioIds == 1..ScenarioTracks
ScalarValues == {1, 3}
ScenarioFiles ==
    [samplerate : {44100}, duration : {200}, rms : ScalarValues,
     spectral_centroid : ScalarValues, peak_amplitude : ScalarValues]

\* A deployment with the library: essentia_extraction runs on the .wav
\* tracks and hands back {} for the others.
ScenarioInit ==
    \E file \in [ScenarioIds -> ScenarioFiles],
       ext \in [ScenarioIds -> {".wav", ".mp3"}],
       signal \in [ScenarioIds -> EssentiaSignals] :
        /\ tracks = [t \in ScenarioIds |->
                        [NewTrack EXCEPT !.status = "features_ready",
                                         !.samplerate = Some(file[t].samplerate),
                                         !.duration = Some(file[t].duration)]]
        /\ features =
             { AudioFeature(t, basic_extraction(file[t], TRUE,
                   essentia_extraction(TRUE, ext[t], "ok", Families, {},
                                       signal[t]).features)) :
               t \in ScenarioIds }
        /\ edges = {}
        /\ nextEdgeId = 1
        /\ queue = [m \in Messages |->
                       IF m = Msg("compute_similarity_for_track", 1) THEN 1 ELSE 0]
        /\ worker = [w \in Workers |-> IdleWorker]
        /\ extra = 0
        /\ load = NoLoad
        /\ essentia = NoExtraction
        /\ similar = NoResponse
        /\ upload = NoUpload

ScenarioNext ==
    \/ \E w \in Workers, m \in Messages : Deliver(w, m) /\ UNCHANGED <<load, essentia, similar, upload>>
    \/ \E w \in Workers : SimCheck(w) /\ UNCHANGED <<load, essentia, similar, upload>>
    \/ \E w \in Workers : SimDelete(w) /\ UNCHANGED <<load, essentia, similar, upload>>
    \/ \E w \in Workers : SimScan(w) /\ UNCHANGED <<load, essentia, similar, upload>>
    \/ \E w \in Workers : SimCommit(w) /\ UNCHANGED <<load, essentia, similar, upload>>
    \/ \E w \in Workers : Finish(w) /\ UNCHANGED <<load, essentia, similar, upload>>

ScenarioSpec == ScenarioInit /\ [][ScenarioNext]_vars

\* The sum under the square root of the weighted Euclidean distance, the three
\* scalar weights being 1.
SquaredDifferences(a, b) ==
      (a.rms[1] - b.rms[1]) * (a.rms[1] - b.rms[1])
    + (a.spectral_centroid[1] - b.spectral_centroid[1])
        * (a.spectral_centroid[1] - b.spectral_centroid[1])
    + (a.peak_amplitude[1] - b.peak_amplitude[1])
        * (a.peak_amplitude[1] - b.peak_amplitude[1])

\* C12: for three tracks A, B, C with the baseline scalars only,
\* compute_similarity_for_track(A) stores exactly the two edges A->B and A->C,
\* and each stored score is the weighted Euclidean distance of the two scalar
\* triples: its square is the sum of the squared differences.
C12_EuclideanScores ==
    \A w \in Workers :
        ( /\ worker[w].task = Similarity /\ worker[w].pc = "returned"
          /\ worker[w].result = "computed"
          /\ DOMAIN tracks = ScenarioIds )
        => LET a == worker[w].track_id IN
           /\ OutTargets(edges, a) = ScenarioIds \ {a}
           /\ Cardinality(OutEdges(edges, a)) = 2
           /\ \A e \in OutEdges(edges, a) :
                e.score * e.score =
                    SquaredDifferences(TrackFeatures(features, a)[1],
                                       TrackFeatures(features, e.target_track_id)[1])

\* --------------------------------------------------------------- C13 ----
LoadEnded == {"returned", "raised"}
Decoders(l) == {i \in DOMAIN l.attempts : l.attempts[i].decoded}
\* The call is on a clip shorter than the minimum that some loader decoded.
ShortClipDecoded(l) ==
    /\ l.file.duration > 0
    /\ l.file.duration < MIN_DURATION_SECONDS
    /\ Decoders(l) # {}
StatesDuration(message, d) == \E i \in DOMAIN message : message[i].duration = Some(d)

\* C13: decoding a clip whose decoded duration is below 0.5 s fails with the
\* AudioTooShortError itself, not with AudioDecodeError, _post_process having
\* been applied once, to the first loader that decoded; process_audio then
\* leaves the track in status error with an error_message stating the clip's
\* duration.
C13_TooShortItself ==
    [][ /\ (load.pc \notin LoadEnded /\ load'.pc \in LoadEnded /\ ShortClipDecoded(load'))
           => /\ load'.pc = "raised"
              /\ load'.outcome[1].error[1].kind = "AudioTooShortError"
              /\ load'.post_processed = 1
        /\ \A w \in Workers :
             ( /\ load.caller = "process_audio" /\ load.worker = w
               /\ load.pc \in LoadEnded /\ load'.pc = "none"
               /\ ShortClipDecoded(load) )
             => /\ tracks'[worker[w].track_id].status = "error"
                /\ tracks'[worker[w].track_id].error_message # None
                /\ StatesDuration(tracks'[worker[w].track_id].error_message[1],
                                  load.file.duration) ]_vars

C15_UnsupportedFormatFirst ==
    (load.pc \notin {"none", "check"} /\ load.file.ext \notin SUPPORTED_FORMATS)
    => /\ load.pc = "raised"
       /\ load.outcome[1].error[1].kind = "UnsupportedFormatError"
       /\ load.attempts = <<>>
       /\ load.scratch = "none"

\* --------------------------------------------------------------- C16 ----
\* C16 as stated: on every exit path of the ffmpeg loader the scratch file no
\* longer exists when load_audio returns or raises.
C16_ScratchNeverSurvives ==
    load.pc \in LoadEnded => load.scratch # "exists"

\* C16, amended: on every exit path of the ffmpeg loader (decoded, non-zero
\* exit, ffmpeg not started, scratch file unreadable) the scratch file has
\* been unlinked when load_audio returns or raises, and it no longer exists
\* unless that unlink failed with OSError; the failure is logged and the
\* turn's outcome is the try block's.
C16_ScratchUnlinkedOrLogged ==
    [][ /\ load'.pc \in LoadEnded
           => (load'.scratch = "exists" => load'.unlink_logged)
        /\ (load.pc = "ffmpeg_finally" /\ load'.pc # "ffmpeg_finally")
           => /\ load'.scratch = "deleted" \/ load'.unlink_logged
              /\ load'.attempts[Len(load'.attempts)].loader = "ffmpeg"
              /\ load'.attempts[Len(load'.attempts)].result =
                   IF load.pending[1].ok
                   THEN post_process(load.pending[1].duration[1])
                   ELSE load.pending[1] ]_vars

\* ffmpeg decoded, the unlink failed and was logged, load_audio returned.
C16_Witness ==
    /\ load.pc = "returned"
    /\ load.attempts[Len(load.attempts)].loader = "ffmpeg"
    /\ load.scratch = "exists"
    /\ load.unlink_logged

\* --------------------------------------------------------------- C17 ----
\* C17: upload_track acknowledges after storing the file, persisting the
\* Track row and dispatching process_audio only: while the request runs no
\* audio is decoded, no loader is invoked.
C17_UploadDecodesNothing ==
    load.caller = "upload_track"
    => /\ load.attempts = <<>>
       /\ load.pc \notin {"ffmpeg_run", "ffmpeg_blocked", "ffmpeg_finally"}

\* --------------------------------------------------------------- C18 ----
DeclaredKeys ==
    {"rms", "spectral_centroid", "peak_amplitude", "bpm", "key", "key_strength",
     "mfcc", "rms_envelope", "spectral_flux", "rolloff", "flatness"}
\* A JSON column holding the empty list (None is SQL NULL).
EmptyList == Some(<<>>)

\* C18: once extract_features has stored rows with the extended capability
\* off, the dictionary basic_extraction produces has every declared key, with
\* bpm, key, key_strength, spectral_flux, rolloff and flatness null, mfcc
\* thirteen zeros, rms_envelope the empty sequence and the three baseline
\* scalars non-null; and every stored AudioFeature row carries these values.
C18_EveryDeclaredKey ==
    features # {}
    => /\ \A r \in features :
            /\ r.bpm = None /\ r.key = None /\ r.key_strength = None
            /\ r.spectral_flux = None /\ r.rolloff = None /\ r.flatness = None
            /\ r.mfcc = [i \in 1..13 |-> 0]
            /\ r.rms # None /\ r.spectral_centroid # None /\ r.peak_amplitude # None
            /\ r.rms_envelope = EmptyList
       /\ \A f \in DecodedFiles :
            LET d == basic_extraction(f, FALSE, <<>>) IN
            /\ DOMAIN d = DeclaredKeys
            /\ d.rms_envelope = EmptyList

\* --------------------------------------------------------------- C19 ----
\* C19: no step of a compute_similarity_for_track execution, whether the
\* execution goes on to succeed, to return an error or to raise, changes any
\* track's status, error_message, samplerate or duration, or any AudioFeature
\* row; the only track column it can change is has_similarity of its source.
C19_SimilarityFrame ==
    [][\A w \in Workers :
         ( /\ worker[w].task = Similarity
           /\ worker[w].pc \notin Terminal
           /\ worker'[w] # worker[w] )
         => /\ features' = features
            /\ \A t \in TrackIds :
                 \/ tracks'[t] = tracks[t]
                 \/ /\ t = worker[w].track_id
                    /\ Exists(t)
                    /\ tracks'[t].status = tracks[t].status
                    /\ tracks'[t].error_message = tracks[t].error_message
                    /\ tracks'[t].samplerate = tracks[t].samplerate
                    /\ tracks'[t].duration = tracks[t].duration]_vars

\* One execution has raised, another of the same source has committed: the
\* source is still features_ready without error_message, has_similarity set.
C19_Witness ==
    \E w \in Workers :
        /\ worker[w].task = Similarity /\ worker[w].pc = "raised"
        /\ tracks[worker[w].track_id].status = "features_ready"
        /\ tracks[worker[w].track_id].error_message = None
        /\ tracks[worker[w].track_id].has_similarity

\* --------------------------------------------------------------- C20 ----
\* C20: in every state of the store, whatever extract_features executions
\* ran, re-delivered or concurrent for one track, each track has at most one
\* AudioFeature row.
C20_OneFeatureRowPerTrack ==
    \A t \in TrackIds : Cardinality(RowsOf(features, t)) <= 1

\* A second extract_features execution for a track was refused at commit and
\* the track has its one row.
C20_Witness ==
    \E w \in Workers :
        /\ worker[w].task = "extract_features" /\ worker[w].pc = "raised"
        /\ worker[w].result = "IntegrityError"
        /\ Cardinality(RowsOf(features, worker[w].track_id)) = 1

\* --------------------------------------------------------------- C21 ----
\* C21: while an extract_features execution that no re-delivery interferes
\* with is computing the features of its track, the persisted status of the
\* track is extracting: the execution wrote it before computing anything, so
\* a status poll in that window observes it.
C21_ExtractingWhileComputing ==
    \A w \in Workers :
        ( /\ At(w, "extract_features", "ext_extract")
          /\ Exists(worker[w].track_id)
          /\ extra = 0 )
        => tracks[worker[w].track_id].status = "extracting"

\* --------------------------------------------------------------- C22 ----
ExtractQueued(q, t) == q[Msg("extract_features", t)]

\* C22: the step of process_audio that follows a successful decode commits
\* status loaded with the decoded sample rate and duration and a null
\* error_message and dispatches nothing; extract_features is enqueued only by
\* a process_audio execution that has committed that update, once, in the
\* step in which it returns successfully; a process_audio execution that
\* ends any other way enqueues nothing.
C22_LoadedThenDispatchedOnce ==
    [][\A w \in Workers :
         LET t == worker[w].track_id IN
         /\ ( Leaves(w, "process_audio", "proc_load") /\ Exists(t)
                  /\ worker'[w].pc = "proc_dispatch" )
            => /\ tracks'[t].status = "loaded"
               /\ \E f \in DecodedFiles :
                    /\ tracks'[t].samplerate = Some(f.samplerate)
                    /\ tracks'[t].duration = Some(f.duration)
               /\ tracks'[t].error_message = None
               /\ queue' = queue
         /\ ( worker[w].task = "process_audio" /\ worker[w].pc \notin Terminal
                  /\ worker'[w].pc \in Terminal )
            => IF worker'[w].result = "ok"
               THEN /\ worker[w].pc = "proc_dispatch"
                    /\ ExtractQueued(queue', t) = ExtractQueued(queue, t) + 1
               ELSE queue' = queue
         /\ ( worker[w].task = "process_audio" /\ worker[w].pc \notin Terminal
                  /\ worker'[w].pc \notin Terminal
                  /\ worker'[w].pc # worker[w].pc )
            => queue' = queue]_vars
       /\ [][\A t \in TrackIds :
               ExtractQueued(queue', t) > ExtractQueued(queue, t)
               => \E w \in Workers :
                    /\ At(w, "process_audio", "proc_dispatch")
                    /\ worker[w].track_id = t
                    /\ worker'[w].pc = "returned"]_vars

\* A process_audio execution has returned successfully: its track is loaded
\* with sample rate and duration, its extract_features message is waiting;
\* another execution has failed on a decode error.
C22_Witness ==
    \E w \in Workers :
        /\ worker[w].task = "process_audio" /\ worker[w].pc = "returned"
        /\ worker[w].result = "ok"
        /\ tracks[worker[w].track_id].status = "loaded"
        /\ tracks[worker[w].track_id].samplerate # None
        /\ ExtractQueued(queue, worker[w].track_id) = 1
        /\ \E v \in Workers :
             /\ worker[v].task = "process_audio" /\ worker[v].pc = "returned"
             /\ worker[v].result \in LoaderErrors
             /\ ExtractQueued(queue, worker[v].track_id) = 0

\* --------------------------------------------------------------- C23 ----
\* The positions of a task at which the execution has already committed one
\* of its writes.
AfterOwnCommit == {"proc_dispatch", "ext_dispatch"}

\* C23: a stage execution that fails unexpectedly leaves none of its writes
\* visible: the step in which it raises changes no Track, AudioFeature or
\* edge row, and it raises from a position at which it has committed nothing
\* yet.
C23_FailedStageLeavesNoWrite ==
    [][\A w \in Workers :
         ( /\ worker[w].pc \notin Terminal \cup {"idle"}
           /\ worker'[w].pc = "raised" )
         => /\ tracks' = tracks /\ features' = features /\ edges' = edges
            /\ worker[w].pc \notin AfterOwnCommit]_vars

\* --------------------------------------------------------------- C27 ----
\* The stored edges whose source is not s.
OtherEdges(rows, s) == {e \in rows : e.source_track_id # s}

\* C27: no step of a compute_similarity_for_track execution for source S adds,
\* removes or rescores a stored edge whose source is not S.
C27_OtherSourcesUntouched ==
    [][\A w \in Workers :
         ( /\ worker[w].task = Similarity
           /\ worker[w].pc \notin Terminal
           /\ worker'[w] # worker[w] )
         => OtherEdges(edges', worker[w].track_id)
                = OtherEdges(edges, worker[w].track_id)]_vars

\* An execution for S has committed edges after another source's edges were
\* stored, one of them pointing at S, and those are still there.
C27_Witness ==
    \E w \in Workers :
        LET s == worker[w].track_id IN
        /\ worker[w].task = Similarity /\ worker[w].pc = "returned"
        /\ worker[w].computed > 0
        /\ \E e \in OtherEdges(edges, s), g \in OutEdges(edges, s) :
             e.target_track_id = s /\ e.id < g.id

\* --------------------------------------------------------------- C24 ----
\* C24: load_audio always terminates: every call that was started returns or
\* raises, whatever the ffmpeg process does; an ffmpeg process that never
\* exits is given up after a bounded wait and counts as a failed loader.
C24_LoadAudioTerminates ==
    (load.pc = "check") ~> (load.pc \in LoadEnded)

\* --------------------------------------------------------------- C25 ----
\* The keys a family assigns.
FamilyKeys(f) == DOMAIN family_values(f, CHOOSE s \in EssentiaSignals : TRUE)

\* C25: when extended extraction has got past the baseline scalars, whatever
\* subset of the families RMS envelope, spectral shape, MFCC, BPM and key
\* fails, the call returns a dictionary with every key; each failing family
\* is left at its placeholder values and logged, each family that is
\* available and does not fail holds its computed values, which are not the
\* placeholders, and the baseline scalars are kept.
C25_FailingFamiliesIsolated ==
    ( /\ essentia.pc = "returned"
      /\ essentia.available /\ essentia.ext = ".wav" /\ essentia.core = "ok" )
    => /\ DOMAIN essentia.features = DOMAIN placeholder_features
       /\ essentia.logged = essentia.has \cap essentia.failing
       /\ \A k \in {"rms", "spectral_centroid", "peak_amplitude"} :
            essentia.features[k] = Some(essentia.signal[k])
       /\ \A f \in Families : \A k \in FamilyKeys(f) :
            IF f \in essentia.has \ essentia.failing
            THEN /\ essentia.features[k] = family_values(f, essentia.signal)[k]
                 /\ essentia.features[k] # placeholder_features[k]
            ELSE essentia.features[k] = placeholder_features[k]

\* Every family is available, spectral shape and BPM failed: the call
\* returned with the RMS envelope, the MFCC vector and the key computed.
C25_Witness ==
    /\ essentia.pc = "returned"
    /\ essentia.has = Families
    /\ essentia.logged = {"spectral_shape", "bpm"}
    /\ essentia.features.rms_envelope # Some(<<>>)
    /\ essentia.features.mfcc # [i \in 1..MfccSize |-> 0]
    /\ essentia.features.key # None
    /\ essentia.features.spectral_flux = None
    /\ essentia.features.bpm = None

\* --------------------------------------------------------------- C26 ----
RECURSIVE SumSq(_, _, _)
\* The sum of the squared differences of the first n coefficients.
SumSq(x, y, n) ==
    IF n = 0 THEN 0 ELSE (x[n] - y[n]) * (x[n] - y[n]) + SumSq(x, y, n - 1)

MinLen(x, y) == IF Len(x) < Len(y) THEN Len(x) ELSE Len(y)

\* C26: the score compute_similarity_for_track stores for a source and a
\* target that both have an mfcc vector includes the MFCC term with weight
\* 0.5 over the first min(len_source, len_target) coefficients.  Stated for
\* the pairs whose three scalars are equal, where the score is the MFCC term
\* alone: twice its square is the sum of the coefficients' squared
\* differences.
C26_MfccTermInScore ==
    \A w \in Workers :
        ( /\ worker[w].task = Similarity /\ worker[w].pc = "returned"
          /\ worker[w].result = "computed"
          /\ DOMAIN tracks = ScenarioIds )
        => LET a == TrackFeatures(features, worker[w].track_id)[1] IN
           \A e \in OutEdges(edges, a.track_id) :
             LET b == TrackFeatures(features, e.target_track_id)[1] IN
             SquaredDifferences(a, b) = 0
             => 2 * e.score * e.score = SumSq(a.mfcc, b.mfcc, MinLen(a.mfcc, b.mfcc))

\* --------------------------------------------------------------- C28 ----
\* The (target_track_id, score) entries of the stored outgoing edges of s.
OutEntries(rows, s) ==
    {[target_track_id |-> e.target_track_id, score |-> e.score] : e \in OutEdges(rows, s)}

\* C28: get_similar_tracks(track_id) answers with at most 20 entries, each an
\* outgoing edge of track_id, and they are its most similar targets: 20 of
\* them when there are that many, and no outgoing edge left out has a
\* smaller stored distance score than one returned.
C28_MostSimilarReturned ==
    similar.status = 200
    => LET returned == {similar.data[i] : i \in 1..Len(similar.data)}
           out == OutEntries(edges, similar.track_id)
       IN  /\ Len(similar.data) <= SimilarLimit
           /\ returned \subseteq out
           /\ Cardinality(returned) = Len(similar.data)
           /\ Cardinality(out) >= SimilarLimit => Len(similar.data) = SimilarLimit
           /\ \A e \in returned, g \in out \ returned : e.score <= g.score

\* --------------------------------------------------------------- C29 ----
\* C29: under fair execution of the dispatched tasks and with no re-delivery,
\* every uploaded track eventually has status features_ready or error,
\* whatever failure occurs in its decode or its extraction.
C29_EveryTrackSettles ==
    \A t \in TrackIds :
        Exists(t) ~> (tracks[t].status \in {"features_ready", "error"})

\* --------------------------------------------------------------- C30 ----
\* Every dispatched task has completed.
Quiescent ==
    /\ \A m \in Messages : queue[m] = 0
    /\ \A w \in Workers : worker[w].pc = "idle"

\* The tracks with a FeatureVector holding all three baseline scalars.
Complete(rows) ==
    {r.track_id : r \in {x \in rows : extract_basic_feature_values(x) # None}}

Stored(rows, a, b) ==
    \E e \in rows : e.source_track_id = a /\ e.target_track_id = b

\* C30: once every dispatched task has completed, the broker having accepted
\* every dispatch, any two distinct tracks that both have a FeatureVector
\* with the three baseline scalars are joined by a stored edge in at least
\* one direction, whatever the interleaving of their extract and similarity
\* tasks was.
C30_EveryPairJoined ==
    Quiescent
    => \A a, b \in Complete(features) :
         a # b => Stored(edges, a, b) \/ Stored(edges, b, a)

\* Every task has completed; track 2's similarity task ran before track 1's
\* FeatureVector was committed, so 1->2 is the only edge of the pair.
C30_Witness ==
    /\ Quiescent
    /\ Complete(features) = TrackIds
    /\ \A t \in TrackIds : tracks[t].has_similarity
    /\ Stored(edges, 1, 2) /\ ~ Stored(edges, 2, 1)

\* --------------------------------------------------------------- C31 ----
Flagged(tr, t) == tr[t] # NoTrack /\ tr[t].has_similarity

\* C31: a track has has_similarity set only while it has a FeatureVector with
\* the three baseline scalars; the flag is set only by the step in which a
\* compute_similarity_for_track execution for that track commits, together
\* with an edge to every target the execution scanned; and an execution that
\* is rejected or fails changes no track.
C31_FlagOnlyByCommit ==
    [][ /\ \A t \in TrackIds :
             Flagged(tracks', t) => t \in Complete(features')
        /\ \A t \in TrackIds :
             (Flagged(tracks', t) /\ ~ Flagged(tracks, t))
             => \E w \in Workers :
                  /\ At(w, Similarity, "sim_commit")
                  /\ worker[w].track_id = t
                  /\ worker'[w].pc = "returned"
                  /\ worker'[w].result = "computed"
                  /\ ValidTargets(worker[w].all_features, t)
                         \subseteq OutTargets(edges', t)
        /\ \A w \in Workers :
             ( /\ worker[w].task = Similarity
               /\ worker[w].pc \notin Terminal
               /\ worker'[w].pc \in Terminal
               /\ worker'[w].result # "computed" )
             => tracks' = tracks /\ edges' = edges ]_vars

\* A recompute sent for a track without FeatureVector was rejected and left
\* the flag false; the other track's recompute has committed: flag, edge.
C31_Witness ==
    \E w \in Workers, t \in TrackIds :
        /\ worker[w].task = Similarity /\ worker[w].pc = "returned"
        /\ worker[w].result = "No features for source track"
        /\ Exists(worker[w].track_id)
        /\ ~ tracks[worker[w].track_id].has_similarity
        /\ Flagged(tracks, t)
        /\ t \in Complete(features)

\* --------------------------------------------------------------- C32 ----
ProcessQueued(q, t) == q[Msg("process_audio", t)]

\* C32: the step in which upload_track answers a failed validation creates
\* no Track row, dispatches nothing and removes the saved file; the files
\* kept are those of the tracks that have a row; and process_audio is
\* enqueued for a track only by a request whose validation passed, with the
\* track's row committed.
C32_RejectedUploadLeavesNothing ==
    [][ /\ (upload'.response = 400 /\ upload' # upload)
           => /\ tracks' = tracks
              /\ queue' = queue
              /\ ~ upload'.request_file
              /\ ~ upload'.leftover
        /\ upload'.stored = {t \in TrackIds : tracks'[t] # NoTrack}
        /\ \A t \in TrackIds :
             ProcessQueued(queue', t) > ProcessQueued(queue, t)
             => /\ tracks'[t] # NoTrack
                /\ load.caller = "upload_track" /\ load.pc = "returned"
                /\ upload'.response = 200 ]_vars

\* The first upload was refused: no row, nothing waiting at the broker, no
\* file left.
C32_Witness ==
    /\ upload.response = 400
    /\ ~ upload.request_file /\ ~ upload.leftover /\ upload.stored = {}
    /\ \A t \in TrackIds : tracks[t] = NoTrack
    /\ \A m \in Messages : queue[m] = 0

====
